---- MODULE Spec2Model ----
(***************************************************************************)
(* Model of pa-permission-time-analyzer (src/main.py).                     *)
(*                                                                         *)
(* One run of the tool is modelled from either of its two entry points:    *)
(*   entry = "main"  the command line, main()                              *)
(*   entry = "api"   a direct call of analyze_permissions(path, days,      *)
(*                   exclude_patterns)                                     *)
(* The file system, the clock and the command line are inputs.  A path is  *)
(* the sequence of its components, so os.path.join appends a component.    *)
(***************************************************************************)
EXTENDS Integers, Sequences, FiniteSets, TLC

VARIABLES
    entry,             \* "main" or "api"
    args,              \* [path, days, exclude]: the parsed arguments
    nFiles,            \* file system: files 1..nFiles exist under the directory root
    exclude_patterns,  \* None, or the PathSpec object in use
    pc,                \* position of the run
    walkStack,         \* os.walk: directories not yet listed
    curRoot,           \* os.walk: directory of the current (root, _, files) triple
    files,             \* os.walk: files of the current triple not yet visited
    results,           \* analyze_permissions: the result list
    log,               \* records emitted through logging
    fsOps,             \* file system accesses made so far, in order
    report,            \* the text report file: [status, blocks]
    table              \* the console table: [status, rows]

vars == <<entry, args, nFiles, exclude_patterns, pc, walkStack, curRoot, files,
          results, log, fsOps, report, table>>

-----------------------------------------------------------------------------
(* Bounds and inputs *)

\* Number of files the directory tree may hold.
MaxFiles == 3

SecondsPerDay == 24 * 60 * 60

\* time.time() at the call of analyze_permissions.
Now == 10 * SecondsPerDay

\* Values of --days: negative, zero, and two positive windows.
DaysSet == {-1, 0, 1, 2}

\* st_atime / st_mtime values: around the cutoff of a one-day window.
Times == {Now - SecondsPerDay - 1, Now - SecondsPerDay, Now - 1}

\* Python's None where a PathSpec is expected.
None == [kind |-> "none", patterns |-> <<>>]

\* The directory tree: top/ holds sub/, sub/ holds deep/.
TopDir  == <<"top">>
SubDir  == <<"top", "sub">>
DeepDir == <<"top", "sub", "deep">>

\* The path given when the root is a single file, a missing path, or a path
\* that is neither file nor directory (a FIFO, a socket).
SingleFile == <<"f1">>
RootPath(kind) == IF kind = "dir" THEN TopDir ELSE SingleFile

FileName(i) == "f" \o ToString(i)

\* Files 1 and 2 lie in top/, file 3 in top/sub/, the others in top/sub/deep/.
DirOf(i) == IF i <= 2 THEN TopDir ELSE IF i = 3 THEN SubDir ELSE DeepDir

\* Octal digits to a number (st_mode values are written in octal).
RECURSIVE Oct(_)
Oct(ds) == IF ds = <<>> THEN 0
           ELSE 8 * Oct(SubSeq(ds, 1, Len(ds) - 1)) + ds[Len(ds)]

\* st_mode of file i: a plain file, a setuid executable, a sticky file
\* without execute permission.
ModeOf(i) == IF i % 3 = 1 THEN Oct(<<1, 0, 0, 6, 4, 4>>)
             ELSE IF i % 3 = 2 THEN Oct(<<1, 0, 4, 7, 5, 5>>)
             ELSE Oct(<<1, 0, 1, 6, 4, 0>>)

-----------------------------------------------------------------------------
(* stat.filemode *)

Bit(mode, b) == (mode \div b) % 2 = 1

FileType(mode) ==
    LET fmt == (mode \div 4096) % 16 IN
    IF fmt = 10 THEN "l"
    ELSE IF fmt = 12 THEN "s"
    ELSE IF fmt = 8 THEN "-"
    ELSE IF fmt = 6 THEN "b"
    ELSE IF fmt = 4 THEN "d"
    ELSE IF fmt = 2 THEN "c"
    ELSE IF fmt = 1 THEN "p"
    ELSE "?"

\* One r/w/x triple; special is the setuid, setgid or sticky bit of the triple
\* and lo, up its overlay letters ("s","S" or "t","T").
Triple(mode, r, w, x, special, lo, up) ==
    (IF Bit(mode, r) THEN "r" ELSE "-")
    \o (IF Bit(mode, w) THEN "w" ELSE "-")
    \o (IF Bit(mode, x) /\ Bit(mode, special) THEN lo
        ELSE IF Bit(mode, special) THEN up
        ELSE IF Bit(mode, x) THEN "x"
        ELSE "-")

filemode(mode) ==
    FileType(mode)
    \o Triple(mode, 256, 128, 64, 2048, "s", "S")
    \o Triple(mode, 32, 16, 8, 1024, "s", "S")
    \o Triple(mode, 4, 2, 1, 512, "t", "T")

-----------------------------------------------------------------------------
(* pathspec: a PathSpec holds a list of patterns *)

\* A compiled gitignore pattern: name matches a path with a component of that
\* name (the file itself or a directory above it); dirOnly ("name/") matches
\* only directories of that name; include = FALSE is a negation ("!name").
Pattern(name, dirOnly, include) ==
    [name |-> name, dirOnly |-> dirOnly, include |-> include]

PatternMatches(pat, path) ==
    \E k \in 1..Len(path) :
        /\ path[k] = pat.name
        /\ pat.dirOnly => k < Len(path)

\* Pattern lists used as inputs.
PatternLists ==
    { <<>>,
      <<Pattern("f1", FALSE, TRUE)>>,
      <<Pattern("sub", TRUE, TRUE)>>,
      <<Pattern("top", TRUE, TRUE), Pattern("f2", FALSE, FALSE)>>,
      <<Pattern("f3", FALSE, FALSE), Pattern("sub", TRUE, TRUE)>> }

\* PathSpec.from_lines(...): a PathSpec of compiled patterns.
Compiled(pats) == [kind |-> "compiled", patterns |-> pats]

\* PathSpec(lines): the constructor given raw text lines, which it stores as
\* they are, without compiling them.
Raw(lines) == [kind |-> "raw", patterns |-> lines]

\* Index of the last pattern matching path, 0 if none (gitignore precedence:
\* the last matching pattern decides).
LastMatch(pats, path) ==
    LET hits == {k \in 1..Len(pats) : PatternMatches(pats[k], path)}
    IN  IF hits = {} THEN 0 ELSE CHOOSE k \in hits : \A j \in hits : j <= k

\* PathSpec.match_file(path): [raised, value].  Each pattern's include
\* attribute is read; a raw text line has none, so a PathSpec built from a
\* non-empty list of raw lines raises AttributeError.
match_file(spec, path) ==
    IF spec.kind = "raw"
    THEN [raised |-> Len(spec.patterns) > 0, value |-> FALSE]
    ELSE LET k == LastMatch(spec.patterns, path)
         IN  [raised |-> FALSE,
              value  |-> IF k = 0 THEN FALSE ELSE spec.patterns[k].include]

-----------------------------------------------------------------------------
(* is_excluded, analyze_file *)

\* Variant of is_excluded with the answer of match_file negated.
is_excluded_inverted(path, patterns) ==
    IF patterns.kind = "none"
    THEN [raised |-> FALSE, value |-> FALSE]
    ELSE LET m == match_file(patterns, path)
         IN  [raised |-> m.raised, value |-> ~m.value]

\* Variant of is_excluded that answers True without a PathSpec.
is_excluded_none_excludes(path, patterns) ==
    IF patterns.kind = "none"
    THEN [raised |-> FALSE, value |-> TRUE]
    ELSE match_file(patterns, path)

\* [raised, value]: False without a PathSpec, else its match_file(path).
is_excluded(path, patterns) ==
    IF patterns.kind = "none"
    THEN [raised |-> FALSE, value |-> FALSE]
    ELSE match_file(patterns, path)

cutoff_timestamp(days) == Now - (days * 24 * 60 * 60)

EmptyDict == [k \in {} |-> ""]

ResultKeys ==
    {"file_path", "permissions", "last_access_time", "last_modified_time",
     "is_dormant"}

\* os.stat(file_path): it fails with OSError, or gives the times and the mode.
StatInfos(mode) ==
    {[ok |-> FALSE, st_atime |-> 0, st_mtime |-> 0, st_mode |-> 0]}
    \cup {[ok |-> TRUE, st_atime |-> a, st_mtime |-> m, st_mode |-> mode] :
            a \in Times, m \in Times}

\* Variant of analyze_file: dormant when either time is before the cutoff.
analyze_file_either(file_path, cutoff, stat_info) ==
    IF stat_info.ok
    THEN [raised |-> FALSE, logged |-> FALSE,
          value |-> [file_path          |-> file_path,
                     permissions        |-> filemode(stat_info.st_mode),
                     last_access_time   |-> stat_info.st_atime,
                     last_modified_time |-> stat_info.st_mtime,
                     is_dormant         |-> (stat_info.st_atime < cutoff)
                                            \/ (stat_info.st_mtime < cutoff)]]
    ELSE [raised |-> FALSE, logged |-> TRUE, value |-> EmptyDict]

\* [raised, logged, value]: the OSError of os.stat is caught inside, logged,
\* and an empty dict is returned, so analyze_file itself never raises.
analyze_file(file_path, cutoff, stat_info) ==
    IF stat_info.ok
    THEN [raised |-> FALSE, logged |-> FALSE,
          value |-> [file_path          |-> file_path,
                     permissions        |-> filemode(stat_info.st_mode),
                     last_access_time   |-> stat_info.st_atime,
                     last_modified_time |-> stat_info.st_mtime,
                     is_dormant         |-> (stat_info.st_atime < cutoff)
                                            /\ (stat_info.st_mtime < cutoff)]]
    ELSE [raised |-> FALSE, logged |-> TRUE, value |-> EmptyDict]

-----------------------------------------------------------------------------
(* logging, load_exclude_patterns, the renderers *)

LogRec(level, msg) == [level |-> level, msg |-> msg]

\* Text lines of the exclude file named by --exclude.
ExcludeLines(exclude) == IF exclude = "lines" THEN <<"f1", "sub/">> ELSE <<>>

\* [value, log]: open() fails with FileNotFoundError (a warning), or with
\* another exception (an error); otherwise the lines go to PathSpec(lines).
load_exclude_patterns(exclude) ==
    IF exclude = "notfound"
    THEN [value |-> None, log |-> <<LogRec("WARNING", "exclude_not_found")>>]
    ELSE IF exclude = "unreadable"
    THEN [value |-> None, log |-> <<LogRec("ERROR", "exclude_load_error")>>]
    ELSE [value |-> Raw(ExcludeLines(exclude)), log |-> <<>>]

IsComplete(result) == DOMAIN result = ResultKeys

\* Length of the longest prefix of rs made of complete records: result[key]
\* raises KeyError at the first record without the key.
RECURSIVE CompletePrefix(_)
CompletePrefix(rs) ==
    IF rs = <<>> \/ ~IsComplete(Head(rs)) THEN 0
    ELSE 1 + CompletePrefix(Tail(rs))

ctime(t) == <<"ctime", t>>

str(b) == IF b THEN "True" ELSE "False"

\* What both renderers show of one result.
Rendered(result) ==
    [file_path          |-> result.file_path,
     permissions        |-> result.permissions,
     last_access_time   |-> ctime(result.last_access_time),
     last_modified_time |-> ctime(result.last_modified_time),
     is_dormant         |-> str(result.is_dormant)]

RenderedPrefix(rs) == [k \in 1..CompletePrefix(rs) |-> Rendered(rs[k])]

\* Variant of generate_report that lets the exception reach its caller.
generate_report_propagates(rs, writable) ==
    IF ~writable
    THEN [raised |-> TRUE,
          report |-> [status |-> "failed", blocks |-> <<>>],
          log    |-> <<>>]
    ELSE IF CompletePrefix(rs) < Len(rs)
    THEN [raised |-> TRUE,
          report |-> [status |-> "truncated", blocks |-> RenderedPrefix(rs)],
          log    |-> <<>>]
    ELSE [raised |-> FALSE,
          report |-> [status |-> "written", blocks |-> RenderedPrefix(rs)],
          log    |-> <<LogRec("INFO", "report_saved")>>]

\* [raised, report, log]: every exception, of open() or of a write, is caught
\* and logged; what was written before it stays in the file.
generate_report(rs, writable) ==
    IF ~writable
    THEN [raised |-> FALSE,
          report |-> [status |-> "failed", blocks |-> <<>>],
          log    |-> <<LogRec("ERROR", "report_write_error")>>]
    ELSE IF CompletePrefix(rs) < Len(rs)
    THEN [raised |-> FALSE,
          report |-> [status |-> "truncated", blocks |-> RenderedPrefix(rs)],
          log    |-> <<LogRec("ERROR", "report_write_error")>>]
    ELSE [raised |-> FALSE,
          report |-> [status |-> "written", blocks |-> RenderedPrefix(rs)],
          log    |-> <<LogRec("INFO", "report_saved")>>]

\* [raised, rows]: KeyError at the first record without a key; no table then.
generate_rich_table(rs) ==
    IF CompletePrefix(rs) < Len(rs)
    THEN [raised |-> TRUE, rows |-> <<>>]
    ELSE [raised |-> FALSE, rows |-> RenderedPrefix(rs)]

-----------------------------------------------------------------------------
(* os.walk over the directory tree *)

join(root, file) == Append(root, file)

FilePath(i) == join(DirOf(i), FileName(i))

\* Files listed in directory d.
FilesIn(d) == {FileName(i) : i \in {j \in 1..nFiles : DirOf(j) = d}}

\* Variant of SubDirs: a walk that does not descend.
SubDirsNone(d) == <<>>

\* Sub-directories of d, in listing order.
SubDirs(d) == IF d = TopDir THEN <<SubDir>>
              ELSE IF d = SubDir THEN <<DeepDir>>
              ELSE <<>>

\* The orders in which a directory listing can give the names of S.
Orders(S) ==
    {o \in [1..Cardinality(S) -> S] : \A a, b \in DOMAIN o : a # b => o[a] # o[b]}

-----------------------------------------------------------------------------
(* The run *)

PathKinds == {"file", "dir", "missing", "other"}

ExcludeArgs == {"absent", "notfound", "unreadable", "empty", "lines"}

NoReport == [status |-> "none", blocks |-> <<>>]
NoTable  == [status |-> "none", rows |-> <<>>]

Init ==
    /\ entry \in {"main", "api"}
    /\ args \in [path : PathKinds, days : DaysSet, exclude : ExcludeArgs]
    /\ entry = "api" => args.exclude = "absent"
    /\ nFiles \in 0..MaxFiles
    /\ args.path # "dir" => nFiles = 0
    /\ exclude_patterns \in {None} \cup {Compiled(p) : p \in PatternLists}
    /\ entry = "main" => exclude_patterns = None
    /\ pc = IF entry = "main" THEN "validate" ELSE "analyze"
    /\ walkStack = <<>>
    /\ curRoot = <<>>
    /\ files = <<>>
    /\ results = <<>>
    /\ log = <<>>
    /\ fsOps = <<>>
    /\ report = NoReport
    /\ table = NoTable

\* Where control goes when analyze_permissions returns, and when an exception
\* leaves it: main() catches every exception and logs it.
ReturnPc == IF entry = "main" THEN "report" ELSE "returned"
RaisePc  == IF entry = "main" THEN "done" ELSE "raised"
RaiseLog == IF entry = "main" THEN <<LogRec("ERROR", "unexpected_error")>> ELSE <<>>

\* Variant of Validate without the test of args.days.
ValidatePathOnly ==
    /\ pc = "validate"
    /\ fsOps' = Append(fsOps, "exists")
    /\ IF args.path = "missing"
       THEN /\ log' = Append(log, LogRec("ERROR", "path_not_exist"))
            /\ pc' = "rejected"
       ELSE /\ log' = log
            /\ pc' = "load"
    /\ UNCHANGED <<entry, args, nFiles, exclude_patterns, walkStack, curRoot,
                   files, results, report, table>>

\* main: input validation.
Validate ==
    /\ pc = "validate"
    /\ fsOps' = Append(fsOps, "exists")
    /\ IF args.path = "missing"
       THEN /\ log' = Append(log, LogRec("ERROR", "path_not_exist"))
            /\ pc' = "rejected"
       ELSE IF args.days <= 0
       THEN /\ log' = Append(log, LogRec("ERROR", "days_not_positive"))
            /\ pc' = "rejected"
       ELSE /\ log' = log
            /\ pc' = "load"
    /\ UNCHANGED <<entry, args, nFiles, exclude_patterns, walkStack, curRoot,
                   files, results, report, table>>

\* main: exclude_patterns = None, replaced by load_exclude_patterns(args.exclude)
\* when --exclude is given.
LoadExclude ==
    /\ pc = "load"
    /\ IF args.exclude = "absent"
       THEN UNCHANGED <<exclude_patterns, log, fsOps>>
       ELSE LET r == load_exclude_patterns(args.exclude) IN
            /\ exclude_patterns' = r.value
            /\ log' = log \o r.log
            /\ fsOps' = Append(fsOps, "open_exclude")
    /\ pc' = "analyze"
    /\ UNCHANGED <<entry, args, nFiles, walkStack, curRoot, files, results,
                   report, table>>

\* analyze_permissions, os.path.isfile(path): the single file is inspected
\* unless excluded, outside any try.
AnalyzeSingleFile ==
    /\ pc = "analyze"
    /\ args.path = "file"
    /\ LET path == RootPath(args.path)
           ex   == is_excluded(path, exclude_patterns)
       IN  IF ex.raised
           THEN /\ fsOps' = Append(fsOps, "isfile")
                /\ log' = log \o RaiseLog
                /\ pc' = RaisePc
                /\ UNCHANGED results
           ELSE IF ex.value
           THEN /\ fsOps' = Append(fsOps, "isfile")
                /\ pc' = ReturnPc
                /\ UNCHANGED <<results, log>>
           ELSE \E st \in StatInfos(ModeOf(1)) :
                  LET r == analyze_file(path, cutoff_timestamp(args.days), st) IN
                  /\ fsOps' = fsOps \o <<"isfile", "stat">>
                  /\ results' = Append(results, r.value)
                  /\ log' = IF r.logged
                            THEN Append(log, LogRec("ERROR", "stat_error"))
                            ELSE log
                  /\ pc' = ReturnPc
    /\ UNCHANGED <<entry, args, nFiles, exclude_patterns, walkStack, curRoot,
                   files, report, table>>

\* analyze_permissions, os.path.isdir(path): os.walk starts at the root.
AnalyzeDirectory ==
    /\ pc = "analyze"
    /\ args.path = "dir"
    /\ fsOps' = fsOps \o <<"isfile", "isdir">>
    /\ walkStack' = <<RootPath(args.path)>>
    /\ files' = <<>>
    /\ pc' = "walk"
    /\ UNCHANGED <<entry, args, nFiles, exclude_patterns, curRoot, results, log,
                   report, table>>

\* Variant of AnalyzeInvalidPath that logs nothing.
AnalyzeInvalidPathSilent ==
    /\ pc = "analyze"
    /\ args.path \notin {"file", "dir"}
    /\ fsOps' = fsOps \o <<"isfile", "isdir">>
    /\ pc' = ReturnPc
    /\ UNCHANGED <<entry, args, nFiles, exclude_patterns, walkStack, curRoot,
                   files, results, log, report, table>>

\* analyze_permissions, the path is neither: an error is logged and the empty
\* list returned.
AnalyzeInvalidPath ==
    /\ pc = "analyze"
    /\ args.path \notin {"file", "dir"}
    /\ fsOps' = fsOps \o <<"isfile", "isdir">>
    /\ log' = Append(log, LogRec("ERROR", "invalid_path"))
    /\ pc' = ReturnPc
    /\ UNCHANGED <<entry, args, nFiles, exclude_patterns, walkStack, curRoot,
                   files, results, report, table>>

\* os.walk yields the next (root, _, files): the directory is listed, its
\* sub-directories are walked after its files, before its siblings.
WalkNext ==
    /\ pc = "walk"
    /\ files = <<>>
    /\ walkStack # <<>>
    /\ LET top == Head(walkStack) IN
       /\ fsOps' = Append(fsOps, "scandir")
       /\ curRoot' = top
       /\ files' \in Orders(FilesIn(top))
       /\ walkStack' = SubDirs(top) \o Tail(walkStack)
    /\ UNCHANGED <<entry, args, nFiles, exclude_patterns, pc, results, log,
                   report, table>>

\* The body of "for file in files".
VisitFile ==
    /\ pc = "walk"
    /\ files # <<>>
    /\ LET full_path == join(curRoot, Head(files))
           i         == CHOOSE j \in 1..nFiles : FilePath(j) = full_path
           ex        == is_excluded(full_path, exclude_patterns)
       IN  IF ex.raised
           THEN /\ log' = log \o RaiseLog
                /\ pc' = RaisePc
                /\ UNCHANGED <<results, fsOps, files>>
           ELSE IF ex.value
           THEN /\ files' = Tail(files)
                /\ UNCHANGED <<results, log, fsOps, pc>>
           ELSE \E st \in StatInfos(ModeOf(i)) :
                  LET r == analyze_file(full_path, cutoff_timestamp(args.days), st) IN
                  /\ fsOps' = Append(fsOps, "stat")
                  /\ files' = Tail(files)
                  /\ IF r.raised
                     THEN /\ log' = Append(log, LogRec("ERROR", "analyze_error"))
                          /\ UNCHANGED results
                     ELSE /\ results' = Append(results, r.value)
                          /\ log' = IF r.logged
                                    THEN Append(log, LogRec("ERROR", "stat_error"))
                                    ELSE log
                  /\ UNCHANGED pc
    /\ UNCHANGED <<entry, args, nFiles, exclude_patterns, walkStack, curRoot,
                   report, table>>

\* os.walk is exhausted: return results.
AnalyzeReturn ==
    /\ pc = "walk"
    /\ files = <<>>
    /\ walkStack = <<>>
    /\ pc' = ReturnPc
    /\ UNCHANGED <<entry, args, nFiles, exclude_patterns, walkStack, curRoot,
                   files, results, log, fsOps, report, table>>

\* main: generate_report(results, args.output); the output file can be opened
\* for writing or not.
GenerateReport ==
    /\ pc = "report"
    /\ \E writable \in BOOLEAN :
         LET r == generate_report(results, writable) IN
         /\ report' = r.report
         /\ fsOps' = Append(fsOps, "open_output")
         /\ IF r.raised
            THEN /\ log' = log \o r.log \o RaiseLog
                 /\ pc' = RaisePc
            ELSE /\ log' = log \o r.log
                 /\ pc' = "table"
    /\ UNCHANGED <<entry, args, nFiles, exclude_patterns, walkStack, curRoot,
                   files, results, table>>

\* main: generate_rich_table(results) and console.print(table).
PrintTable ==
    /\ pc = "table"
    /\ LET r == generate_rich_table(results) IN
       IF r.raised
       THEN /\ table' = [status |-> "raised", rows |-> <<>>]
            /\ log' = log \o RaiseLog
            /\ pc' = RaisePc
       ELSE /\ table' = [status |-> "printed", rows |-> r.rows]
            /\ log' = log
            /\ pc' = "done"
    /\ UNCHANGED <<entry, args, nFiles, exclude_patterns, walkStack, curRoot,
                   files, results, fsOps, report>>

Next ==
    \/ Validate
    \/ LoadExclude
    \/ AnalyzeSingleFile
    \/ AnalyzeDirectory
    \/ AnalyzeInvalidPath
    \/ WalkNext
    \/ VisitFile
    \/ AnalyzeReturn
    \/ GenerateReport
    \/ PrintTable

Spec == Init /\ [][Next]_vars

-----------------------------------------------------------------------------
(* Properties *)

Range(s) == {s[k] : k \in DOMAIN s}

Logged(level, msg) == LogRec(level, msg) \in Range(log)

CountLogged(msg) == Cardinality({k \in DOMAIN log : log[k].msg = msg})

CountOps(op) == Cardinality({k \in DOMAIN fsOps : fsOps[k] = op})

\* analyze_permissions has returned its list (to main, or to the caller).
Returned ==
    \/ pc \in {"returned", "report", "table"}
    \/ pc = "done" /\ report.status # "none"

\* The cutoff instant of the run: now - days * 86400.
Cutoff == Now - args.days * SecondsPerDay

\* path matches an active exclusion pattern of the matcher in use.
Matched(path) ==
    /\ exclude_patterns.kind = "compiled"
    /\ LastMatch(exclude_patterns.patterns, path) # 0
    /\ exclude_patterns.patterns[LastMatch(exclude_patterns.patterns, path)].include

\* The run has no exclusion: no matcher, or one without patterns.
NoExclusions ==
    \/ exclude_patterns.kind = "none"
    \/ exclude_patterns.patterns = <<>>

AllFilePaths == {FilePath(i) : i \in 1..nFiles}

ResultPaths == {results[k].file_path : k \in {j \in DOMAIN results : IsComplete(results[j])}}

\* C1: every inspected file's is_dormant is true exactly when both its
\* last access time and its last modified time are before the cutoff.
C1_DormantIffBothBeforeCutoff ==
    \A k \in DOMAIN results :
        IsComplete(results[k]) =>
            (results[k].is_dormant = TRUE
                <=> /\ results[k].last_access_time < Cutoff
                    /\ results[k].last_modified_time < Cutoff)

\* A traversal that met a dormant file, a file read before the cutoff but
\* modified at it, and a file modified before the cutoff but read after it.
C1_Witness ==
    /\ Returned
    /\ \E a, b, c \in DOMAIN results :
        /\ IsComplete(results[a]) /\ IsComplete(results[b]) /\ IsComplete(results[c])
        /\ results[a].is_dormant
        /\ results[b].last_access_time < Cutoff
        /\ results[b].last_modified_time = Cutoff
        /\ ~results[b].is_dormant
        /\ results[c].last_modified_time < Cutoff
        /\ results[c].last_access_time > Cutoff
        /\ ~results[c].is_dormant

\* The files of the directory tree that the matcher in use does not exclude.
NonExcludedFiles ==
    {i \in 1..nFiles : ~is_excluded(FilePath(i), exclude_patterns).value}

\* C2: one stat failure among the N non-excluded files of a directory
\* traversal gives N-1 results and one logged error.
C2_SingleFailureOmitted ==
    (Returned /\ args.path = "dir" /\ CountLogged("stat_error") = 1)
        => Len(results) = Cardinality(NonExcludedFiles) - 1

\* C3: every element of the result list is a complete record of five fields.
C3_AllResultsComplete ==
    \A k \in DOMAIN results : IsComplete(results[k])

\* C4: no result is produced for a path that matches an active exclusion
\* pattern, for a single-file root and for files under a directory root,
\* and no such path is ever inspected.
C4_ExcludedNeverInResults ==
    /\ \A k \in DOMAIN results :
          IsComplete(results[k]) => ~Matched(results[k].file_path)
    /\ Returned /\ args.path = "dir" =>
          Len(results) = Cardinality({i \in 1..nFiles : ~Matched(FilePath(i))})
    /\ Returned /\ args.path = "file" =>
          Len(results) = IF Matched(RootPath("file")) THEN 0 ELSE 1

\* A finished traversal with a dormant excluded file and a kept file.
C4_Witness ==
    /\ pc = "returned"
    /\ args.path = "dir"
    /\ \E i \in 1..nFiles : Matched(FilePath(i))
    /\ \E k \in DOMAIN results :
          IsComplete(results[k]) /\ results[k].is_dormant

\* C5: a directory of N files, without exclusions and with every stat
\* succeeding, gives N results: each file once, none omitted.
C5_EveryFileExactlyOnce ==
    (Returned /\ args.path = "dir" /\ NoExclusions /\ CountLogged("stat_error") = 0)
        => /\ Len(results) = nFiles
           /\ ResultPaths = AllFilePaths

\* A finished traversal of the full tree, files at every depth.
C5_Witness ==
    /\ Returned
    /\ args.path = "dir"
    /\ NoExclusions
    /\ CountLogged("stat_error") = 0
    /\ nFiles = MaxFiles
    /\ Len(results) = MaxFiles
    /\ \E k \in DOMAIN results : Len(results[k].file_path) > 2

\* C6 as stated: with days <= 0 the run is rejected with no file system
\* access at all before the rejection.
C6_ZeroReadsBeforeRejection ==
    (entry = "main" /\ args.days <= 0 /\ pc = "rejected") => fsOps = <<>>

\* C6 amended: with days <= 0 the run never leaves validation; it is rejected
\* after the existence check of the path and no other file system access, and
\* nothing is traversed, loaded or written.
C6_RejectedAfterExistenceCheckOnly ==
    (entry = "main" /\ args.days <= 0)
        => /\ pc \in {"validate", "rejected"}
           /\ pc = "validate" => fsOps = <<>>
           /\ pc = "rejected" => fsOps = <<"exists">>
           /\ results = <<>>
           /\ exclude_patterns = None
           /\ report = NoReport
           /\ table = NoTable

\* A run on an existing path rejected for its days.
C6_Witness ==
    /\ entry = "main"
    /\ pc = "rejected"
    /\ args.days <= 0
    /\ args.path = "dir"
    /\ args.exclude = "lines"
    /\ log = <<LogRec("ERROR", "days_not_positive")>>

\* C7: a root that is neither file nor directory gives the empty list and a
\* logged error, which tells the run from one that found no files: that
\* error is logged for no file or directory root.
C7_InvalidRootReported ==
    Returned =>
        /\ args.path \notin {"file", "dir"} =>
              /\ results = <<>>
              /\ CountLogged("invalid_path") = 1
              /\ Logged("ERROR", "invalid_path")
        /\ args.path \in {"file", "dir"} => CountLogged("invalid_path") = 0

\* analyze_permissions returned for a missing path.
C7_Witness ==
    /\ pc = "returned"
    /\ args.path = "missing"
    /\ results = <<>>
    /\ Logged("ERROR", "invalid_path")

\* C8: after stat failures in a directory traversal, the text report and the
\* console table hold an entry for every file whose inspection succeeded.
C8_ReportCoversSuccessfulFiles ==
    (pc = "done" /\ args.path = "dir" /\ CountLogged("stat_error") >= 1
       /\ report.status \in {"written", "truncated"})
        => \A k \in DOMAIN results :
              IsComplete(results[k]) =>
                  /\ Rendered(results[k]) \in Range(report.blocks)
                  /\ Rendered(results[k]) \in Range(table.rows)

\* C9: when the exclude file cannot be loaded the matcher is None, the
\* failure is logged, and the run goes on without exclusions: every
\* enumerated file is inspected.
C9_LoadFailureMeansNoExclusions ==
    (entry = "main" /\ args.exclude \in {"notfound", "unreadable"}
       /\ pc \notin {"validate", "load", "rejected"})
        => /\ exclude_patterns.kind = "none"
           /\ args.exclude = "notfound" => Logged("WARNING", "exclude_not_found")
           /\ args.exclude = "unreadable" => Logged("ERROR", "exclude_load_error")
           /\ Returned /\ args.path = "dir" =>
                 /\ Len(results) = nFiles
                 /\ CountOps("stat") = nFiles
           /\ Returned /\ args.path = "file" =>
                 /\ Len(results) = 1
                 /\ CountOps("stat") = 1

\* A run whose exclude file is missing, finished with every file in the table.
C9_Witness ==
    /\ pc = "done"
    /\ args.exclude = "notfound"
    /\ args.path = "dir"
    /\ nFiles = MaxFiles
    /\ table.status = "printed"
    /\ Len(table.rows) = MaxFiles

\* C10: a failure to write the text report is logged and the console table
\* is still attempted; it is printed, one row per result, when every result
\* is complete.
C10_TableAttemptedAfterWriteFailure ==
    (entry = "main" /\ report.status \in {"failed", "truncated"})
        => /\ Logged("ERROR", "report_write_error")
           /\ pc \in {"table", "done"}
           /\ pc = "done" =>
                 /\ table.status # "none"
                 /\ CompletePrefix(results) = Len(results) =>
                       /\ table.status = "printed"
                       /\ table.rows = RenderedPrefix(results)

\* The report could not be opened and the table was printed with rows.
C10_Witness ==
    /\ pc = "done"
    /\ report.status = "failed"
    /\ table.status = "printed"
    /\ Len(table.rows) >= 2

====
